---- MODULE Spec2Model ----
(***************************************************************************)
(* AnomSched: a priority job scheduler with a fixed worker pool            *)
(* (src/src/scheduler.cpp, scheduler.hpp) and a logger that classifies     *)
(* each execution duration against a rolling window (src/src/logger.hpp).  *)
(*                                                                         *)
(* Threads of the model: one controller thread that calls start() and      *)
(* stop(), the submitter threads that call submitJob(), and the worker     *)
(* threads that run worker_loop().  A step is one access to shared state   *)
(* (an atomic, the condition variable, the clock) or a part of a critical  *)
(* section, entered when its mutex is free.                                *)
(***************************************************************************)
EXTENDS Integers, Sequences, FiniteSets

\* ---------------------------------------------------------------- bounds
\* Jobs submitted in one behaviour (job_counter is capped in the guard).
MaxJobs == 2
\* Threads the workers vector holds at most (StartSpawn is capped in its guard).
MaxWorkers == 2
\* Last reading of high_resolution_clock, in milliseconds.
MaxClock == 1
\* start()/stop() calls made by the controller thread.
MaxCalls == 3

\* The threads that call submitJob.
Submitters == {1, 2}
\* The priorities callers pass to submitJob.
Priorities == {0, 1}
\* The worker counts given to the constructor.
ThreadCounts == {1, 2}

\* ------------------------------------------------------- program constants
\* Logger::max_history
max_history == 50
\* The size below which detectAnomalyRealTime returns false.
MinHistory == 10

VARIABLES
    running,            \* std::atomic<bool> Scheduler::running
    job_counter,        \* std::atomic<int> Scheduler::job_counter
    job_queue,          \* std::priority_queue<Job>: the heap's array
    queue_mutex,        \* holder of Scheduler::queue_mutex
    log_mutex,          \* holder of Logger::log_mutex
    workers,            \* std::vector<std::thread> and each thread's position
    capacity,           \* workers.capacity()
    ctl,                \* the controller thread: its position in start()/stop()
    subs,               \* the submitter threads: position and the Job being built
    clock,              \* high_resolution_clock, in milliseconds
    execution_history,  \* Logger::execution_history
    sink,               \* what has been written to Logger::log_file
    \* history variables (not program state)
    pushed,             \* job ids in the order of job_queue.push
    deqCount,           \* job id -> number of times it was popped
    execCount,          \* job id -> number of times its body ran
    atStop,             \* ids in the queue when stop() last cleared running
    stopReturned,       \* a call of stop() on a started scheduler has returned
    calls,              \* start()/stop() calls made so far
    num_threads         \* the constructor's num_threads argument

vars == <<running, job_counter, job_queue, queue_mutex, log_mutex, workers,
          capacity, ctl, subs, clock, execution_history, sink,
          pushed, deqCount, execCount, atStop, stopReturned, calls, num_threads>>

\* ------------------------------------------------------------ thread names
NoThread == <<"none", 0>>
WorkerThread(i) == <<"worker", i>>
SubmitThread(s) == <<"submit", s>>

\* ------------------------------------------------------------------- Job
\* Job job(0, 0, [] {}): the worker's local before it is assigned.
EmptyJob == [id |-> 0, priority |-> 0, submit_time |-> 0]

\* A faulty variant of Job::operator<: the comparison turned round.
JobLessInverted(a, b) == a.priority > b.priority

\* Job::operator<
JobLess(a, b) == a.priority < b.priority

\* ------------------------------------------------- std::priority_queue<Job>
\* The heap is the underlying vector, 1-based: the parent of i is i \div 2.
Swap(h, i, j) == [h EXCEPT ![i] = h[j], ![j] = h[i]]

RECURSIVE SiftUp(_, _)
SiftUp(h, i) ==
    IF i > 1 /\ JobLess(h[i \div 2], h[i])
    THEN SiftUp(Swap(h, i, i \div 2), i \div 2)
    ELSE h

RECURSIVE SiftDown(_, _)
SiftDown(h, i) ==
    LET l == 2 * i
        r == 2 * i + 1
        big == IF r <= Len(h) /\ JobLess(h[l], h[r]) THEN r ELSE l
    IN  IF l <= Len(h) /\ JobLess(h[i], h[big])
        THEN SiftDown(Swap(h, i, big), big)
        ELSE h

\* job_queue.push(job): push_back, then push_heap
HeapPush(h, job) == SiftUp(Append(h, job), Len(h) + 1)

\* A faulty variant of the dequeue: the copy is taken from the heap's last slot.
HeapTopLast(h) == h[Len(h)]

\* job_queue.top()
HeapTop(h) == h[1]

\* A faulty variant of the dequeue: top() without pop().
HeapPopKeep(h) == h

\* job_queue.pop(): pop_heap, then pop_back

HeapPop(h) ==
    IF Len(h) = 1 THEN <<>>
    ELSE SiftDown([k \in 1..(Len(h) - 1) |-> IF k = 1 THEN h[Len(h)] ELSE h[k]], 1)

\* ------------------------------------------- Logger::detectAnomalyRealTime
RECURSIVE SumSeq(_)
SumSeq(h) == IF h = <<>> THEN 0 ELSE h[1] + SumSeq(Tail(h))

RECURSIVE SumSqSeq(_)
SumSqSeq(h) == IF h = <<>> THEN 0 ELSE h[1] * h[1] + SumSqSeq(Tail(h))

\* |x - mean| > 2 * std_dev in exact arithmetic, with mean = S/n and
\* std_dev = sqrt(n*Q - S*S)/n, cleared of the division and the square root:
\* (n*x - S)^2 > 4 * (n*Q - S*S).
ZScoreAbove2(h, x) ==
    LET n == Len(h)
        S == SumSeq(h)
        Q == SumSqSeq(h)
    IN  (n * x - S) * (n * x - S) > 4 * (n * Q - S * S)

\* |x - mean| = 2 * std_dev in exact arithmetic, with std_dev # 0.
ZScoreIs2(h, x) ==
    LET n == Len(h)
        S == SumSeq(h)
        Q == SumSqSeq(h)
    IN  /\ n * Q - S * S # 0
        /\ (n * x - S) * (n * x - S) = 4 * (n * Q - S * S)

\* ---------------------------------------------------- double arithmetic
\* The integers behind a double's 53-bit significand and its products do not
\* fit the model checker's integers: a natural number is held as the sequence
\* of its base-2^15 digits, lowest first, with no leading zero digit (0 is
\* the empty sequence).
Limb == 2 ^ 15

RECURSIVE BNorm(_)
BNorm(a) == IF a # <<>> /\ a[Len(a)] = 0 THEN BNorm(SubSeq(a, 1, Len(a) - 1)) ELSE a

RECURSIVE BFromInt(_)
BFromInt(k) == IF k = 0 THEN <<>> ELSE <<k % Limb>> \o BFromInt(k \div Limb)

RECURSIVE BAddC(_, _, _)
BAddC(a, b, c) ==
    IF a = <<>> /\ b = <<>> THEN BFromInt(c)
    ELSE LET t == (IF a = <<>> THEN 0 ELSE a[1]) + (IF b = <<>> THEN 0 ELSE b[1]) + c
         IN  <<t % Limb>> \o BAddC(IF a = <<>> THEN a ELSE Tail(a),
                                   IF b = <<>> THEN b ELSE Tail(b), t \div Limb)

BAdd(a, b) == BAddC(a, b, 0)

\* a - b, for a >= b
RECURSIVE BSubC(_, _, _)
BSubC(a, b, c) ==
    IF a = <<>> THEN <<>>
    ELSE LET t == a[1] - (IF b = <<>> THEN 0 ELSE b[1]) - c
         IN  <<IF t < 0 THEN t + Limb ELSE t>>
             \o BSubC(Tail(a), IF b = <<>> THEN b ELSE Tail(b), IF t < 0 THEN 1 ELSE 0)

BSub(a, b) == BNorm(BSubC(a, b, 0))

\* a < b
RECURSIVE BLess(_, _)
BLess(a, b) ==
    IF Len(a) # Len(b) THEN Len(a) < Len(b)
    ELSE IF a = <<>> THEN FALSE
    ELSE IF a[Len(a)] # b[Len(b)] THEN a[Len(a)] < b[Len(b)]
    ELSE BLess(SubSeq(a, 1, Len(a) - 1), SubSeq(b, 1, Len(b) - 1))

\* a * k, for k < Limb
RECURSIVE BMulSmallC(_, _, _)
BMulSmallC(a, k, c) ==
    IF a = <<>> THEN BFromInt(c)
    ELSE LET t == a[1] * k + c
         IN  <<t % Limb>> \o BMulSmallC(Tail(a), k, t \div Limb)

BMulSmall(a, k) == BNorm(BMulSmallC(a, k, 0))

RECURSIVE BMul(_, _)
BMul(a, b) ==
    IF a = <<>> \/ b = <<>> THEN <<>>
    ELSE LET r == BMul(a, Tail(b))
         IN  BAdd(BMulSmall(a, b[1]), IF r = <<>> THEN r ELSE <<0>> \o r)

\* quotient q and remainder r of a by k, for 0 < k < Limb
RECURSIVE BDivSmallR(_, _)
BDivSmallR(a, k) ==
    IF a = <<>> THEN [q |-> <<>>, r |-> 0]
    ELSE LET up == BDivSmallR(Tail(a), k)
             t == up.r * Limb + a[1]
         IN  [q |-> <<t \div k>> \o up.q, r |-> t % k]

BDivSmall(a, k) == LET d == BDivSmallR(a, k) IN [q |-> BNorm(d.q), r |-> d.r]

\* a * 2^s and the whole part of a / 2^s
BShl(a, s) ==
    IF a = <<>> THEN a
    ELSE [j \in 1..(s \div 15) |-> 0] \o BMulSmall(a, 2 ^ (s % 15))

BShr(a, s) ==
    IF s \div 15 >= Len(a) THEN <<>>
    ELSE BDivSmall(SubSeq(a, s \div 15 + 1, Len(a)), 2 ^ (s % 15)).q

\* the number of binary digits of a
BBitLen(a) ==
    IF a = <<>> THEN 0
    ELSE 15 * (Len(a) - 1)
         + (CHOOSE b \in 1..15 : 2 ^ (b - 1) <= a[Len(a)] /\ a[Len(a)] < 2 ^ b)

\* the whole part of the square root of a, one base-2^15 digit at a time,
\* from the highest.  BSqrtDigit is the largest d in lo..hi for which
\* (r + d * Limb^i)^2 <= a, found by bisection; BSqrtFrom(a, i, top) is the
\* root's digits top..i.
RECURSIVE BSqrtDigit(_, _, _, _, _)
BSqrtDigit(a, r, i, lo, hi) ==
    IF lo = hi THEN lo
    ELSE LET mid == (lo + hi + 1) \div 2
             c == BAdd(r, [j \in 1..i |-> 0] \o <<mid>>)
         IN  IF BLess(a, BMul(c, c))
             THEN BSqrtDigit(a, r, i, lo, mid - 1)
             ELSE BSqrtDigit(a, r, i, mid, hi)

RECURSIVE BSqrtFrom(_, _, _)
BSqrtFrom(a, i, top) ==
    IF i > top THEN <<>>
    ELSE LET r == BSqrtFrom(a, i + 1, top)
             d == BSqrtDigit(a, r, i, 0, Limb - 1)
         IN  IF d = 0 THEN r ELSE BAdd(r, [j \in 1..i |-> 0] \o <<d>>)

BSqrt(a) == BSqrtFrom(a, 0, (Len(a) + 1) \div 2 - 1)

\* A double that is not negative is [m, e], standing for m * 2^e, with m of
\* exactly MantissaBits binary digits, or m = 0.
MantissaBits == 53

Min(i, j) == IF i < j THEN i ELSE j

\* The rounding every double operation ends with, to nearest, ties to even.
\* The exact result is a * 2^e, or lies strictly between a * 2^e and
\* (a + 1) * 2^e when `sticky` (a then has more than MantissaBits + 1 digits).
RoundNearestEven(a, e, sticky) ==
    LET s == BBitLen(a) - MantissaBits
        keep == BShr(a, s)
        rem == BSub(a, BShl(keep, s))
        half == BShl(<<1>>, s - 1)
        up == BLess(half, rem) \/ (rem = half /\ (sticky \/ keep[1] % 2 = 1))
        m == IF up THEN BAdd(keep, <<1>>) ELSE keep
    IN  IF a = <<>> THEN [m |-> <<>>, e |-> 0]
        ELSE IF s <= 0 THEN [m |-> BShl(a, 0 - s), e |-> e + s]
        ELSE IF BBitLen(m) > MantissaBits THEN [m |-> BShr(m, 1), e |-> e + s + 1]
        ELSE [m |-> m, e |-> e + s]

\* the conversion of a whole number of milliseconds to double
DFromInt(k) == RoundNearestEven(BFromInt(k), 0, FALSE)

\* x / n for a double x and a size n: the quotient to 60 more binary digits
\* and whether the division left a remainder
DDivInt(x, n) ==
    LET d == BDivSmall(BShl(x.m, 60), n)
    IN  RoundNearestEven(d.q, x.e - 60, d.r # 0)

\* |x - y| and x + y
DAbsDiff(x, y) ==
    LET e == Min(x.e, y.e)
        a == BShl(x.m, x.e - e)
        b == BShl(y.m, y.e - e)
    IN  RoundNearestEven(IF BLess(a, b) THEN BSub(b, a) ELSE BSub(a, b), e, FALSE)

DAdd(x, y) ==
    LET e == Min(x.e, y.e)
    IN  RoundNearestEven(BAdd(BShl(x.m, x.e - e), BShl(y.m, y.e - e)), e, FALSE)

DMul(x, y) == RoundNearestEven(BMul(x.m, y.m), x.e + y.e, FALSE)

\* std::sqrt(x): the root of m * 2^s, s making the exponent even
DSqrt(x) ==
    LET s == IF (x.e + 2048) % 2 = 0 THEN 56 ELSE 57
        a == BShl(x.m, s)
        r == BSqrt(a)
    IN  IF x.m = <<>> THEN x
        ELSE RoundNearestEven(r, (x.e - s) \div 2, BMul(r, r) # a)

\* abs(x / y) > 2.0 for y # 0: the rounded quotient is above 2.0 exactly
\* when the quotient is above 2 + 2^-52, half way to the next double (the
\* tie goes to 2.0, whose significand is even): x * 2^52 > y * (2^53 + 1).
DQuotientAbove2(x, y) ==
    LET e == Min(x.e + 52, y.e)
    IN  BLess(BShl(BMul(y.m, BAdd(BShl(<<1>>, 53), <<1>>)), y.e - e),
              BShl(x.m, x.e + 52 - e))

\* for (double duration : execution_history)
\*     variance += (duration - mean) * (duration - mean);
\* DSumSqDev is variance after the samples lo..hi have been added, in order,
\* to acc.  The range is split in halves, and the first half's sum is looked
\* at before the second half is entered, to keep the evaluation shallow.
RECURSIVE DSumSqDev(_, _, _, _, _)
DSumSqDev(h, lo, hi, mean, acc) ==
    IF lo > hi THEN acc
    ELSE IF lo = hi
    THEN LET t == DAbsDiff(DFromInt(h[lo]), mean)
         IN  DAdd(acc, DMul(t, t))
    ELSE LET mid == (lo + hi) \div 2
             left == DSumSqDev(h, lo, mid, mean, acc)
         IN  IF left = acc THEN DSumSqDev(h, mid + 1, hi, mean, acc)
             ELSE DSumSqDev(h, mid + 1, hi, mean, left)

\* z_score > 2.0 as the doubles give it, every operation rounded
ZScoreAbove2Double(h, x) ==
    LET mean == DDivInt(DFromInt(SumSeq(h)), Len(h))
        variance == DDivInt(DSumSqDev(h, 1, Len(h), mean, DFromInt(0)), Len(h))
        std_dev == DSqrt(variance)
        dev == DAbsDiff(DFromInt(x), mean)
    IN  IF std_dev.m = <<>> THEN dev.m # <<>>
        ELSE DQuotientAbove2(dev, std_dev)

\* A faulty variant of detectAnomalyRealTime: std_dev = 0 returns false.
DetectAnomalyZeroGuarded(h, x) ==
    IF Len(h) < MinHistory THEN FALSE
    ELSE ZScoreAbove2(h, x) /\ SumSeq(h) * SumSeq(h) # Len(h) * SumSqSeq(h)

\* A faulty variant of detectAnomalyRealTime: no test of the window's size.
DetectAnomalyNoMinimum(h, x) ==
    IF h = <<>> THEN FALSE ELSE ZScoreAbove2(h, x)

\* detectAnomalyRealTime(current_duration).  The durations are whole
\* milliseconds held in doubles, each operation rounds to nearest (SSE2
\* doubles, no fused multiply-add).
\*  - std_dev = 0: every sample equals the mean, which is computed exactly;
\*    the division gives inf (x # mean: true) or NaN (x = mean: NaN > 2.0 is
\*    false), which is what ZScoreAbove2 gives.
\*  - |x - mean| # 2 * std_dev: the two sides of ZScoreAbove2 are integers
\*    that differ by at least 1 in at most 4 * 50 * 50 * 500 * 500, so
\*    z_score is further than 10^-10 from 2.0, which the rounding of the
\*    mean, the squares, the sum, the sqrt and the division (less than
\*    10^-13 together) cannot cross: the double comparison is the exact one.
\*  - |x - mean| = 2 * std_dev: the roundings decide, and are followed one
\*    by one.
DetectAnomalyRealTime(h, x) ==
    IF Len(h) < MinHistory THEN FALSE
    ELSE IF ZScoreIs2(h, x) THEN ZScoreAbove2Double(h, x)
    ELSE ZScoreAbove2(h, x)

\* A faulty variant of the eviction: the newest sample is dropped.
PushHistoryDropNewest(h, d) ==
    LET g == Append(h, d)
    IN  IF Len(g) > max_history THEN SubSeq(g, 1, Len(g) - 1) ELSE g

\* execution_history.push_back(d); erase(begin()) when size() > max_history
PushHistory(h, d) ==
    LET g == Append(h, d)
    IN  IF Len(g) > max_history THEN Tail(g) ELSE g

\* ------------------------------------------------------------------ state
\* A faulty variant of the spawn: the loop counter is taken after its increment.
NewWorkerIdAfterIncrement(thread_id) ==
    [tid |-> thread_id + 1, pc |-> "while", job |-> EmptyJob,
     start_time |-> 0, end_time |-> 0, is_anomaly |-> FALSE]

\* A thread of the workers vector running worker_loop(thread_id).
NewWorker(thread_id) ==
    [tid |-> thread_id, pc |-> "while", job |-> EmptyJob,
     start_time |-> 0, end_time |-> 0, is_anomaly |-> FALSE]

IdleSubmitter == [pc |-> "idle", job |-> EmptyJob]

JobIds == 1..MaxJobs

\* The positions of the workers vector.
WorkerIds == 1..MaxWorkers

\* Scheduler::Scheduler and Logger::Logger: running(false), the file opened
\* and its header written, workers.reserve(num_threads).
Init ==
    /\ running = FALSE
    /\ job_counter = 0
    /\ job_queue = <<>>
    /\ queue_mutex = NoThread
    /\ log_mutex = NoThread
    /\ workers = <<>>
    /\ num_threads \in ThreadCounts
    /\ capacity = num_threads
    /\ ctl = [pc |-> "idle", thread_id |-> 0]
    /\ subs = [s \in Submitters |-> IdleSubmitter]
    /\ clock = 0
    /\ execution_history = <<>>
    /\ sink = <<>>
    /\ pushed = <<>>
    /\ deqCount = [j \in JobIds |-> 0]
    /\ execCount = [j \in JobIds |-> 0]
    /\ atStop = {}
    /\ stopReturned = FALSE
    /\ calls = 0

\* log_file when log_file.open(filename, std::ios::out) has failed: no file,
\* and the stream's failbit set.
FailedStream == <<[kind |-> "failbit"]>>

\* Scheduler::Scheduler and Logger::Logger with a log_filename that cannot be
\* opened for writing: the constructors run as in Init, the result of open()
\* is not looked at and the header goes to the failed stream.
OpenFailureInit ==
    /\ running = FALSE
    /\ job_counter = 0
    /\ job_queue = <<>>
    /\ queue_mutex = NoThread
    /\ log_mutex = NoThread
    /\ workers = <<>>
    /\ num_threads \in ThreadCounts
    /\ capacity = num_threads
    /\ ctl = [pc |-> "idle", thread_id |-> 0]
    /\ subs = [s \in Submitters |-> IdleSubmitter]
    /\ clock = 0
    /\ execution_history = <<>>
    /\ sink = FailedStream
    /\ pushed = <<>>
    /\ deqCount = [j \in JobIds |-> 0]
    /\ execCount = [j \in JobIds |-> 0]
    /\ atStop = {}
    /\ stopReturned = FALSE
    /\ calls = 0

\* The clock is read in whole milliseconds (duration_cast<milliseconds>).  The
\* time that passes is the time job bodies take: a body takes TaskDurations
\* milliseconds, the scheduler's own steps less than one.
TaskDurations == {0, 1}

\* high_resolution_clock::now()
Now == clock

Waiting == {i \in DOMAIN workers : workers[i].pc = "waiting"}

QueueIds(h) == {h[k].id : k \in DOMAIN h}

\* The variables of the scheduler's queue, of the logger, and the history
\* variables, for the UNCHANGED clauses.
queueVars == <<job_counter, job_queue, queue_mutex, pushed>>
logVars == <<log_mutex, execution_history, sink>>
histVars == <<deqCount, execCount, atStop, stopReturned>>

\* ------------------------------------------------------- Scheduler::start
\* The capacity std::vector gives itself when emplace_back finds it full
\* (libstdc++: size + max(size, 1)).
GrowCapacity(c) == IF c = 0 THEN 1 ELSE 2 * c

\* running = true; int thread_id = 0;
StartCall ==
    /\ ctl.pc = "idle"
    /\ calls < MaxCalls
    /\ running' = TRUE
    /\ ctl' = [pc |-> "start", thread_id |-> 0]
    /\ calls' = calls + 1
    /\ atStop' = {}
    /\ UNCHANGED <<queueVars, logVars, workers, capacity, subs, clock,
                   deqCount, execCount, stopReturned, num_threads>>

\* thread_id < (int)workers.capacity(): workers.emplace_back(...); ++thread_id
StartSpawn ==
    /\ ctl.pc = "start"
    /\ ctl.thread_id < capacity
    /\ Len(workers) < MaxWorkers
    /\ workers' = Append(workers, NewWorker(ctl.thread_id))
    /\ capacity' = IF Len(workers) = capacity THEN GrowCapacity(capacity) ELSE capacity
    /\ ctl' = [ctl EXCEPT !.thread_id = @ + 1]
    /\ UNCHANGED <<queueVars, logVars, histVars, running, subs, clock, calls, num_threads>>

\* thread_id reached workers.capacity(): start() returns
StartReturn ==
    /\ ctl.pc = "start"
    /\ ctl.thread_id >= capacity
    /\ ctl' = [pc |-> "idle", thread_id |-> 0]
    /\ UNCHANGED <<queueVars, logVars, histVars, running, workers, capacity, subs,
                   clock, calls, num_threads>>

\* -------------------------------------------------------- Scheduler::stop
\* running = false;
StopCall ==
    /\ ctl.pc = "idle"
    /\ calls < MaxCalls
    /\ running' = FALSE
    /\ ctl' = [pc |-> "stop_notify", thread_id |-> 0]
    /\ calls' = calls + 1
    /\ atStop' = QueueIds(job_queue)
    /\ UNCHANGED <<queueVars, logVars, workers, capacity, subs, clock,
                   deqCount, execCount, stopReturned, num_threads>>

\* condition.notify_all(): every thread blocked in the wait is made runnable
StopNotifyAll ==
    /\ ctl.pc = "stop_notify"
    /\ workers' = [i \in DOMAIN workers |->
                     IF i \in Waiting THEN [workers[i] EXCEPT !.pc = "lock"]
                     ELSE workers[i]]
    /\ ctl' = [ctl EXCEPT !.pc = "stop_join"]
    /\ UNCHANGED <<queueVars, logVars, histVars, running, capacity, subs, clock,
                   calls, num_threads>>

\* A faulty variant of stop(): it returns only after it has joined a thread.
StopJoinNeedsThread ==
    /\ ctl.pc = "stop_join"
    /\ workers # <<>>
    /\ \A i \in DOMAIN workers : workers[i].pc = "exited"
    /\ workers' = <<>>
    /\ ctl' = [pc |-> "idle", thread_id |-> 0]
    /\ stopReturned' = TRUE
    /\ UNCHANGED <<queueVars, logVars, running, capacity, subs, clock,
                   deqCount, execCount, atStop, calls, num_threads>>

\* A faulty variant of stop(): the threads are detached, not joined.
StopJoinDetached ==
    /\ ctl.pc = "stop_join"
    /\ workers' = <<>>
    /\ ctl' = [pc |-> "idle", thread_id |-> 0]
    /\ stopReturned' = (stopReturned \/ workers # <<>>)
    /\ UNCHANGED <<queueVars, logVars, running, capacity, subs, clock,
                   deqCount, execCount, atStop, calls, num_threads>>

\* for (auto &t : workers) if (t.joinable()) t.join();  workers.clear();
\* The joins return once every worker_loop has returned.
StopJoin ==
    /\ ctl.pc = "stop_join"
    /\ \A i \in DOMAIN workers : workers[i].pc = "exited"
    /\ workers' = <<>>
    /\ ctl' = [pc |-> "idle", thread_id |-> 0]
    /\ stopReturned' = (stopReturned \/ workers # <<>>)
    /\ UNCHANGED <<queueVars, logVars, running, capacity, subs, clock,
                   deqCount, execCount, atStop, calls, num_threads>>

\* A mutex held by `holder` is released: the end of a lock_guard's scope,
\* or condition.wait giving up the mutex to block.
Unlock(holder) == NoThread

\* --------------------------------------------------- Scheduler::submitJob
\* A faulty variant of the id assignment: the counter is read, not incremented.
NextJobIdStale(c) == IF c = 0 THEN 1 ELSE c

\* ++job_counter
NextJobId(c) == c + 1

\* job.id = ++job_counter; job.priority = priority; job.submit_time = now();
SubmitAssign(s) ==
    /\ subs[s].pc = "idle"
    /\ Len(pushed) + Cardinality({t \in Submitters : subs[t].pc # "idle"}) < MaxJobs
    /\ job_counter' = NextJobId(job_counter)
    /\ \E p \in Priorities :
          subs' = [subs EXCEPT ![s] =
                     [pc |-> "lock",
                      job |-> [id |-> job_counter', priority |-> p, submit_time |-> Now]]]
    /\ UNCHANGED <<job_queue, queue_mutex, pushed, logVars, histVars, running, workers,
                   capacity, ctl, clock, calls, num_threads>>

\* { std::lock_guard<std::mutex> lock(queue_mutex); job_queue.push(job); }
\* The critical section is one step: it is entered when the mutex is free
\* and leaves it free.
SubmitPush(s) ==
    /\ subs[s].pc = "lock"
    /\ queue_mutex = NoThread
    /\ job_queue' = HeapPush(job_queue, subs[s].job)
    /\ pushed' = Append(pushed, subs[s].job.id)
    /\ queue_mutex' = Unlock(SubmitThread(s))
    /\ subs' = [subs EXCEPT ![s].pc = "notify"]
    /\ UNCHANGED <<job_counter, logVars, histVars, running, workers, capacity, ctl,
                   clock, calls, num_threads>>

\* A faulty variant of submitJob: it returns without condition.notify_one().
SubmitNotifyDropped(s) ==
    /\ subs[s].pc = "notify"
    /\ subs' = [subs EXCEPT ![s] = IdleSubmitter]
    /\ UNCHANGED <<queueVars, logVars, histVars, running, workers, capacity, ctl,
                   clock, calls, num_threads>>

\* condition.notify_one(): one of the threads blocked in the wait, if any,
\* is made runnable; submitJob returns
SubmitNotify(s) ==
    /\ subs[s].pc = "notify"
    /\ \/ /\ Waiting = {}
          /\ UNCHANGED workers
       \/ \E i \in Waiting : workers' = [workers EXCEPT ![i].pc = "lock"]
    /\ subs' = [subs EXCEPT ![s] = IdleSubmitter]
    /\ UNCHANGED <<queueVars, logVars, histVars, running, capacity, ctl, clock,
                   calls, num_threads>>

\* ------------------------------------------------- Scheduler::worker_loop
\* The workers that have not returned from worker_loop.
Live == {i \in DOMAIN workers : workers[i].pc # "exited"}

\* while (running) { Job job(0, 0, [] {});
WhileRunning(i) ==
    /\ i \in DOMAIN workers
    /\ workers[i].pc = "while"
    /\ workers' = [workers EXCEPT ![i].pc = IF running THEN "lock" ELSE "exited"]
    /\ UNCHANGED <<queueVars, logVars, histVars, running, capacity, ctl, subs, clock,
                   calls, num_threads>>

\* std::unique_lock<std::mutex> lock(queue_mutex); condition.wait(lock, pred):
\* the mutex is taken (by a woken thread too, inside wait: it is at "lock"
\* again) and the predicate !job_queue.empty() || !running is evaluated with
\* the mutex held
LockAndTest(i) ==
    /\ i \in DOMAIN workers
    /\ workers[i].pc = "lock"
    /\ queue_mutex = NoThread
    /\ queue_mutex' = WorkerThread(i)
    /\ workers' = [workers EXCEPT ![i].pc =
                     IF job_queue # <<>> \/ ~running THEN "check" ELSE "block"]
    /\ UNCHANGED <<job_counter, job_queue, pushed, logVars, histVars, running, capacity,
                   ctl, subs, clock, calls, num_threads>>

\* condition.wait(lock): the mutex is released and the thread blocks, as one step
WaitBlock(i) ==
    /\ i \in DOMAIN workers
    /\ workers[i].pc = "block"
    /\ queue_mutex' = Unlock(queue_mutex)
    /\ workers' = [workers EXCEPT ![i].pc = "waiting"]
    /\ UNCHANGED <<job_counter, job_queue, pushed, logVars, histVars, running, capacity,
                   ctl, subs, clock, calls, num_threads>>

\* condition.wait(lock) may return without a notification
SpuriousWakeup(i) ==
    /\ i \in DOMAIN workers
    /\ workers[i].pc = "waiting"
    /\ workers' = [workers EXCEPT ![i].pc = "lock"]
    /\ UNCHANGED <<queueVars, logVars, histVars, running, capacity, ctl, subs, clock,
                   calls, num_threads>>

\* A faulty variant of worker_loop: the unique_lock lives on after the pop.
QueueLockScopeOpen(holder) == holder

\* The closing brace of the block that holds the unique_lock (line 67), or the
\* return inside it: the unique_lock's destructor releases queue_mutex before
\* the job body is run.
QueueLockScopeEnd(holder) == NoThread

\* if (!running && job_queue.empty()) return;
\* job = job_queue.top(); job_queue.pop(); and the unique_lock's scope ends
CheckAndPop(i) ==
    /\ i \in DOMAIN workers
    /\ workers[i].pc = "check"
    /\ \/ /\ ~running /\ job_queue = <<>>
          /\ workers' = [workers EXCEPT ![i].pc = "exited"]
          /\ UNCHANGED <<job_queue, deqCount>>
       \/ /\ ~(~running /\ job_queue = <<>>)
          /\ workers' = [workers EXCEPT ![i].pc = "start_time",
                                        ![i].job = HeapTop(job_queue)]
          /\ job_queue' = HeapPop(job_queue)
          /\ deqCount' = [deqCount EXCEPT ![HeapTop(job_queue).id] = @ + 1]
    /\ queue_mutex' = QueueLockScopeEnd(queue_mutex)
    /\ UNCHANGED <<job_counter, pushed, logVars, execCount, atStop, stopReturned,
                   running, capacity, ctl, subs, clock, calls, num_threads>>

\* auto start_time = high_resolution_clock::now();
StartTime(i) ==
    /\ i \in DOMAIN workers
    /\ workers[i].pc = "start_time"
    /\ workers' = [workers EXCEPT ![i].pc = "task", ![i].start_time = Now]
    /\ UNCHANGED <<queueVars, logVars, histVars, running, capacity, ctl, subs, clock,
                   calls, num_threads>>

\* job.task(); auto end_time = high_resolution_clock::now();
RunTask(i) ==
    /\ i \in DOMAIN workers
    /\ workers[i].pc = "task"
    /\ execCount' = [execCount EXCEPT ![workers[i].job.id] = @ + 1]
    /\ \E d \in TaskDurations :
          /\ clock + d <= MaxClock
          /\ clock' = clock + d
          /\ workers' = [workers EXCEPT ![i].pc = "log", ![i].end_time = clock']
    /\ UNCHANGED <<queueVars, logVars, deqCount, atStop, stopReturned, running,
                   capacity, ctl, subs, calls, num_threads>>

\* ----------------------------------------------------------- Logger::log
\* A faulty variant of Logger::log: log_mutex is not taken.
LogMutexIgnored == TRUE

\* log_mutex can be taken
LogMutexFree == log_mutex = NoThread

\* A faulty variant of the write: the chunk is put before what the file holds.
SinkPrepend(f, chunk) == <<chunk>> \o f

\* log_file << ...: what is written is put after what the file holds; on a
\* stream whose failbit is set the insertion does nothing
SinkAppend(f, chunk) == IF f = FailedStream THEN f ELSE Append(f, chunk)

\* std::lock_guard<std::mutex> lock(log_mutex);
\* exec_duration = end_ms - start_ms; is_anomaly = detectAnomalyRealTime(exec_duration);
\* execution_history.push_back(exec_duration); erase(begin()) beyond max_history
LogEnter(i, w) ==
    /\ log_mutex' = WorkerThread(i)
    /\ workers' = [workers EXCEPT ![i] =
                     [w EXCEPT !.pc = "write",
                               !.is_anomaly = DetectAnomalyRealTime(execution_history,
                                                  w.end_time - w.start_time)]]
    /\ execution_history' = PushHistory(execution_history, w.end_time - w.start_time)

\* logger.log(job.id, thread_id, job.submit_time, start_time, end_time): the
\* call waits for log_mutex and enters the critical section
LogLock(i) ==
    /\ i \in DOMAIN workers
    /\ workers[i].pc = "log"
    /\ LogMutexFree
    /\ LogEnter(i, workers[i])
    /\ UNCHANGED <<queueVars, sink, histVars, running, capacity, ctl, subs, clock,
                   calls, num_threads>>

\* log_file << job_id << "," << thread_id << ... << queue_wait << ","
\* (`by` is a history field: the thread that wrote the chunk)
LogWriteFields(i) ==
    /\ i \in DOMAIN workers
    /\ workers[i].pc = "write"
    /\ sink' = SinkAppend(sink,
                 [kind |-> "fields", by |-> i,
                  job_id |-> workers[i].job.id, thread_id |-> workers[i].tid,
                  submit_ms |-> workers[i].job.submit_time,
                  start_ms |-> workers[i].start_time,
                  end_ms |-> workers[i].end_time,
                  exec_duration |-> workers[i].end_time - workers[i].start_time,
                  queue_wait |-> workers[i].start_time - workers[i].job.submit_time])
    /\ workers' = [workers EXCEPT ![i].pc = "eol"]
    /\ UNCHANGED <<queueVars, log_mutex, execution_history, histVars, running,
                   capacity, ctl, subs, clock, calls, num_threads>>

\* log_file << (is_anomaly ? "1" : "0") << "\n"; log_file.flush(); the alert
\* on std::cout; the lock_guard's scope ends and the loop goes round
LogWriteEol(i) ==
    /\ i \in DOMAIN workers
    /\ workers[i].pc = "eol"
    /\ sink' = SinkAppend(sink, [kind |-> "eol", by |-> i,
                                 is_anomaly |-> workers[i].is_anomaly])
    /\ log_mutex' = Unlock(log_mutex)
    /\ workers' = [workers EXCEPT ![i] = NewWorker(workers[i].tid)]
    /\ UNCHANGED <<queueVars, execution_history, histVars, running, capacity, ctl,
                   subs, clock, calls, num_threads>>

\* ------------------------------------------------------------ the system
Controller ==
    \/ StartCall
    \/ StartSpawn
    \/ StartReturn
    \/ StopCall
    \/ StopNotifyAll
    \/ StopJoin

Submitter(s) ==
    \/ SubmitAssign(s)
    \/ SubmitPush(s)
    \/ SubmitNotify(s)

\* The steps a worker thread takes when it is scheduled.
WorkerStep(i) ==
    \/ WhileRunning(i)
    \/ LockAndTest(i)
    \/ WaitBlock(i)
    \/ CheckAndPop(i)
    \/ StartTime(i)
    \/ RunTask(i)
    \/ LogLock(i)
    \/ LogWriteFields(i)
    \/ LogWriteEol(i)

Next ==
    \/ Controller
    \/ \E s \in Submitters : Submitter(s)
    \/ \E i \in WorkerIds : WorkerStep(i)
    \/ \E i \in WorkerIds : SpuriousWakeup(i)

Spec == Init /\ [][Next]_vars

\* The scheduler constructed with a log file that cannot be opened.
OpenFailureSpec == OpenFailureInit /\ [][Next]_vars

\* Every thread that can take a step is scheduled: the worker threads, and
\* the controller once it is inside stop().  Callers are not obliged to call
\* start(), stop() or submitJob(), and a wait need not wake spuriously.
FairSpec ==
    /\ Spec
    /\ \A i \in WorkerIds : WF_vars(WorkerStep(i))
    /\ WF_vars(StopNotifyAll)
    /\ WF_vars(StopJoin)
    /\ \A s \in Submitters : WF_vars(SubmitPush(s) \/ SubmitNotify(s))

\* The scheduler whose stop() is never called: the callers start it and submit
\* jobs, the workers run.
NoStopNext ==
    \/ StartCall
    \/ StartSpawn
    \/ StartReturn
    \/ \E s \in Submitters : Submitter(s)
    \/ \E i \in WorkerIds : WorkerStep(i)
    \/ \E i \in WorkerIds : SpuriousWakeup(i)

\* Every worker thread that can take a step is scheduled, and a thread inside
\* submitJob goes on to the push and the notification.  Nobody is obliged to
\* call start() or submitJob(), and a wait need not wake spuriously.
NoStopFairSpec ==
    /\ Init /\ [][NoStopNext]_vars
    /\ \A i \in WorkerIds : WF_vars(WorkerStep(i))
    /\ \A s \in Submitters : WF_vars(SubmitPush(s) \/ SubmitNotify(s))

\* ------------------------------------------- the logger under its callers
\* LoggerSpec follows the Logger of a started scheduler through many calls of
\* log(): what the queue does between two calls is left out, a worker goes
\* from the top of its loop straight to the call with a job whose body took
\* one of Durations milliseconds.

\* Calls of log() in one behaviour.
MaxLogCalls == 53
\* Calls of log() in a behaviour that has more than one unusual call.
MaxVariedCalls == 12
\* Unusual calls in one behaviour.
MaxUnusual == 3

\* The milliseconds a job body takes: the usual one, and the unusual ones.
Steady == {100}
Durations == Steady \cup {104, 105, 150, 500}

\* The rows of the sink, by position.
Rows == {k \in DOMAIN sink : sink[k].kind = "fields"}

\* The calls of log() made so far, when no call is in progress; how many of
\* them had an unusual duration, and how many were not made by the first
\* worker thread.
LoggedCount == Cardinality(Rows)
OutlierCount == Cardinality({k \in Rows : sink[k].exec_duration \notin Steady})
OtherCount == Cardinality({k \in Rows : sink[k].by # 1})

\* The behaviours explored.  A call is unusual once for a duration outside
\* Steady and once for a caller other than the first worker thread: up to
\* MaxVariedCalls calls with up to MaxUnusual of these, up to MaxLogCalls
\* calls with at most one.
Admitted(i, d) ==
    LET u == OutlierCount + OtherCount
             + (IF d \in Steady THEN 0 ELSE 1) + (IF i = 1 THEN 0 ELSE 1)
    IN  /\ LoggedCount < MaxLogCalls
        /\ u <= MaxUnusual
        /\ LoggedCount >= MaxVariedCalls => u <= 1

\* Scheduler::Scheduler(2, ...) and start(): running, two worker loops.
LoggerInit ==
    /\ running = TRUE
    /\ job_counter = 0
    /\ job_queue = <<>>
    /\ queue_mutex = NoThread
    /\ log_mutex = NoThread
    /\ workers = <<NewWorker(0), NewWorker(1)>>
    /\ num_threads = 2
    /\ capacity = num_threads
    /\ ctl = [pc |-> "idle", thread_id |-> 0]
    /\ subs = [s \in Submitters |-> IdleSubmitter]
    /\ clock = 0
    /\ execution_history = <<>>
    /\ sink = <<>>
    /\ pushed = <<>>
    /\ deqCount = [j \in JobIds |-> 0]
    /\ execCount = [j \in JobIds |-> 0]
    /\ atStop = {}
    /\ stopReturned = FALSE
    /\ calls = 1

\* start_time = now(); job.task(); end_time = now();
\* logger.log(job.id, thread_id, job.submit_time, start_time, end_time): the
\* call waits for log_mutex and enters the critical section
LogCall(i) ==
    /\ i \in DOMAIN workers
    /\ workers[i].pc = "while"
    /\ LogMutexFree
    /\ \E d \in Durations :
          /\ Admitted(i, d)
          /\ clock' = clock + d
          /\ LogEnter(i, [workers[i] EXCEPT
                            !.job = [id |-> LoggedCount + 1, priority |-> 0,
                                     submit_time |-> Now],
                            !.start_time = Now,
                            !.end_time = clock'])
    /\ UNCHANGED <<queueVars, sink, histVars, running, capacity, ctl, subs,
                   calls, num_threads>>

LoggerStep(i) ==
    \/ LogCall(i)
    \/ LogWriteFields(i)
    \/ LogWriteEol(i)

LoggerNext == \E i \in WorkerIds : LoggerStep(i)

LoggerSpec == LoggerInit /\ [][LoggerNext]_vars

\* ------------------------------------------------------------ properties

\* C1: stop() terminates.  Under FairSpec (every worker thread and the
\* thread inside stop() keeps being scheduled, every job body returns), a
\* call of stop() that has cleared running eventually returns, with every
\* worker loop exited.
C1_StopTerminates == (ctl.pc = "stop_notify") ~> (ctl.pc = "idle" /\ workers = <<>>)

\* C2: stop is not a drain.  No job that was in the queue when stop() cleared
\* running is dequeued afterwards (atStop is emptied by the next start()).
C2_QueuedAtStopNeverDequeued == \A id \in atStop : deqCount[id] = 0

\* C3: priority dispatch order.  Every step in which a worker dequeues a job
\* leaves no job of a higher priority in the queue.
C3_PriorityDispatch ==
    [][\A i \in DOMAIN workers :
          (/\ i \in DOMAIN workers'
           /\ workers[i].pc = "check"
           /\ workers'[i].pc = "start_time")
          => \A k \in DOMAIN job_queue' :
                job_queue'[k].priority <= workers'[i].job.priority]_vars

\* Job 1 was pushed first and job 2, of a higher priority, second; job 2 has
\* been dequeued while job 1 is still queued.
C3_Witness ==
    /\ pushed = <<1, 2>>
    /\ QueueIds(job_queue) = {1}
    /\ \E i \in DOMAIN workers :
          /\ workers[i].pc = "start_time"
          /\ workers[i].job.id = 2
          /\ job_queue[1].priority < workers[i].job.priority

\* The rows of the sink that carry job id `id`.
RowsOf(id) == {k \in DOMAIN sink : sink[k].kind = "fields" /\ sink[k].job_id = id}

\* C4: at-most-once execution.  Every job is dequeued at most once, its body
\* runs at most once, and at most one row of the sink carries its id.
C4_AtMostOnce ==
    \A id \in JobIds :
        /\ deqCount[id] <= 1
        /\ execCount[id] <= 1
        /\ Cardinality(RowsOf(id)) <= 1

\* Two submitted jobs have been executed and recorded by two different workers.
C4_Witness ==
    /\ num_threads = 2
    /\ \E k, l \in DOMAIN sink :
          /\ sink[k].kind = "fields" /\ sink[l].kind = "fields"
          /\ sink[k].job_id = 1 /\ sink[l].job_id = 2
          /\ sink[k].by # sink[l].by
    /\ Len(sink) = 4

\* C5: double start is guarded.  The live worker loops never outnumber the
\* constructor's worker count, and no two of them carry the same worker id.
C5_DoubleStartGuarded ==
    /\ Cardinality(Live) <= num_threads
    /\ \A i, j \in Live : i # j => workers[i].tid # workers[j].tid

\* C6: no re-entry.  Once the scheduler has been started and a call of stop()
\* has returned, running stays false and there are no worker loops.
C6_NoReentry == stopReturned => (~running /\ workers = <<>>)

\* The ids of the jobs pushed, and the submitters between ++job_counter and
\* job_queue.push.
PushedIds == {pushed[k] : k \in DOMAIN pushed}
Assigning == {s \in Submitters : subs[s].pc = "lock"}

\* C7 as stated: ids are strictly increasing in the order of job_queue.push.
C7_IdsIncreaseInPushOrder ==
    \A k \in 1..(Len(pushed) - 1) : pushed[k] < pushed[k + 1]

\* C7 as amended: ids are pairwise distinct, and every id given out is
\* greater than every id given out before it (the order of the increments of
\* job_counter, hence also the order of one caller's successive calls).
C7_IdsDistinctAndIncreasing ==
    /\ [](/\ Cardinality(PushedIds) = Len(pushed)
          /\ \A s, t \in Assigning : s # t => subs[s].job.id # subs[t].job.id
          /\ \A s \in Assigning : subs[s].job.id \notin PushedIds)
    /\ [][\A s \in Submitters :
             (subs[s].pc = "idle" /\ subs'[s].pc = "lock")
             => \A id \in PushedIds \cup {subs[t].job.id : t \in Assigning} :
                   id < subs'[s].job.id]_vars

\* Two concurrent callers: the job with id 2 was pushed before the job with id 1.
C7_Witness == pushed = <<2, 1>>

\* C8: job bodies run with no lock held.  A worker inside a job body holds
\* neither mutex, no thread holds both mutexes, and when every live worker is
\* inside a job body the queue mutex is free, so that a submitJob call can
\* enqueue.
C8_NoLockInBody ==
    /\ \A i \in DOMAIN workers :
          /\ workers[i].pc = "task"
             => (queue_mutex # WorkerThread(i) /\ log_mutex # WorkerThread(i))
          /\ ~(queue_mutex = WorkerThread(i) /\ log_mutex = WorkerThread(i))
    /\ (Live # {} /\ \A i \in Live : workers[i].pc = "task")
       => (/\ queue_mutex = NoThread
           /\ \A s \in Submitters : subs[s].pc = "lock" => ENABLED SubmitPush(s))

\* Every live worker is inside a job body, and a submitJob call has meanwhile
\* enqueued a job of a higher priority than the one being executed.
C8_Witness ==
    /\ Live # {}
    /\ \A i \in Live : workers[i].pc = "task"
    /\ \E s \in Submitters :
          /\ subs[s].pc = "notify"
          /\ subs[s].job.id \in QueueIds(job_queue)
          /\ \A i \in Live : workers[i].job.priority < subs[s].job.priority

\* The workers inside Logger::log's critical section.
InLog == {i \in DOMAIN workers : workers[i].pc \in {"write", "eol"}}

\* C9: sink serialization.  At most one worker is inside Logger::log's
\* critical section, and it holds log_mutex; the window has one entry per row
\* written or being written; every row of the sink is complete (its fields,
\* then its end of line, written by the same call), but for the last one when
\* its writer is still inside the critical section.
C9_SinkSerialized ==
    /\ Cardinality(InLog) <= 1
    /\ \A i \in InLog : log_mutex = WorkerThread(i)
    /\ Len(execution_history) =
          Cardinality({k \in DOMAIN sink : sink[k].kind = "fields"})
          + Cardinality({i \in InLog : workers[i].pc = "write"})
    /\ \A k \in DOMAIN sink :
          IF k % 2 = 1
          THEN /\ sink[k].kind = "fields"
               /\ k = Len(sink)
                  => (sink[k].by \in InLog /\ workers[sink[k].by].pc = "eol")
          ELSE /\ sink[k].kind = "eol"
               /\ sink[k].by = sink[k - 1].by

\* One worker is inside the critical section, between the two writes of its
\* row, while another has finished its job body and waits for log_mutex.
C9_Witness ==
    \E i, j \in DOMAIN workers :
        /\ i # j
        /\ workers[i].pc = "eol"
        /\ workers[j].pc = "log"

\* C10 as stated: of two rows written by different workers, the earlier
\* one has the smaller or equal endTime.
C10_SinkOrderIsCompletionOrder ==
    \A k, l \in Rows :
        (k < l /\ sink[k].by # sink[l].by) => sink[k].end_ms <= sink[l].end_ms

\* C10 as amended: of two rows written by the same worker thread, the
\* earlier one ended before the later one started.
C10_SinkOrderPerWorker ==
    \A k, l \in Rows :
        (k < l /\ sink[k].by = sink[l].by)
        => (sink[k].end_ms <= sink[l].start_ms /\ sink[k].end_ms <= sink[l].end_ms)

\* One worker has written two rows, the later one with a later endTime.
C10_Witness ==
    \E k, l \in Rows :
        /\ k < l
        /\ sink[k].by = sink[l].by
        /\ sink[k].thread_id = sink[l].thread_id
        /\ sink[k].end_ms < sink[l].end_ms

\* The steps in which worker i's call of log() classifies its duration.
Classifies(i) ==
    /\ i \in DOMAIN workers
    /\ i \in DOMAIN workers'
    /\ workers[i].pc # "write"
    /\ workers'[i].pc = "write"

\* The duration worker record w passes to detectAnomalyRealTime.
ExecDuration(w) == w.end_time - w.start_time

AllEqual(h) == \A k \in DOMAIN h : h[k] = h[1]

\* C11: zero-variance guard.  A duration classified against a window of at
\* least 10 samples that are all equal is anomalous exactly when it differs
\* from the common value, and the call goes on to write its row: the division
\* by a zero std_dev is no failure.
C11_ZeroVarianceGuard ==
    [][\A i \in WorkerIds :
          (/\ Classifies(i)
           /\ Len(execution_history) >= MinHistory
           /\ AllEqual(execution_history))
          => /\ workers'[i].is_anomaly
                  <=> (ExecDuration(workers'[i]) # execution_history[1])
             /\ log_mutex' = WorkerThread(i)]_vars

\* Eleven samples of 100 ms, the eleventh classified not anomalous against
\* the ten before it, then one of 150 ms classified anomalous.
C11_Witness ==
    /\ Len(sink) = 24
    /\ \A k \in 1..11 : sink[2 * k - 1].exec_duration = 100
    /\ ~sink[22].is_anomaly
    /\ sink[23].exec_duration = 150
    /\ sink[24].is_anomaly

\* C12: z-score classification against the existing window.  A duration x
\* classified against a window w of at least 10 samples is anomalous exactly
\* when |x - mean(w)| > 2 * populationStdDev(w), w being the window before x
\* is appended.
C12_ZScoreClassification ==
    [][\A i \in WorkerIds :
          (Classifies(i) /\ Len(execution_history) >= MinHistory)
          => (workers'[i].is_anomaly
                <=> ZScoreAbove2(execution_history, ExecDuration(workers'[i])))]_vars

\* C13: insufficient history.  A duration classified while the window holds
\* fewer than 10 samples is not anomalous, whatever its value, and is
\* appended to the window; the first 9 records of the sink carry IsAnomaly 0.
C13_InsufficientHistory ==
    /\ [](\A k \in DOMAIN sink :
             (sink[k].kind = "eol" /\ k <= 2 * (MinHistory - 1)) => ~sink[k].is_anomaly)
    /\ [][\A i \in WorkerIds :
             (Classifies(i) /\ Len(execution_history) < MinHistory)
             => /\ ~workers'[i].is_anomaly
                /\ execution_history' =
                      Append(execution_history, ExecDuration(workers'[i]))]_vars

\* Nine records are in the sink, the ninth of 500 ms after eight of 100 ms,
\* none of them flagged, and all nine durations are in the window.
C13_Witness ==
    /\ Len(sink) = 18
    /\ \A k \in 1..8 : sink[2 * k - 1].exec_duration = 100
    /\ sink[17].exec_duration = 500
    /\ ~sink[18].is_anomaly
    /\ execution_history = <<100, 100, 100, 100, 100, 100, 100, 100, 500>>

\* The durations recorded so far, in the order of recording: those of the
\* rows of the sink, and that of the call that has updated the window and
\* has not written its row yet.
Recorded ==
    [k \in 1..LoggedCount |-> sink[2 * k - 1].exec_duration]
    \o (IF \E i \in DOMAIN workers : workers[i].pc = "write"
        THEN <<ExecDuration(workers[CHOOSE i \in DOMAIN workers : workers[i].pc = "write"])>>
        ELSE <<>>)

\* C14: rolling window bound and FIFO eviction.  After k durations have been
\* recorded the window holds the most recent min(k, 50) of them, in the
\* order of recording; it never holds more than 50.
C14_RollingWindow ==
    /\ Len(execution_history) = Min(Len(Recorded), max_history)
    /\ execution_history =
          SubSeq(Recorded, Len(Recorded) - Len(execution_history) + 1, Len(Recorded))
    /\ Len(execution_history) <= max_history

\* 52 calls have returned, the third of them with 500 ms: the first two
\* samples have been evicted and the 500 ms sample is the oldest of the 50 in
\* the window.
C14_Witness ==
    /\ log_mutex = NoThread
    /\ LoggedCount = 52
    /\ sink[5].exec_duration = 500
    /\ Len(execution_history) = 50
    /\ execution_history[1] = 500
    /\ execution_history[2] = 100

\* C15: sink open failure is fatal at construction.  With a metrics
\* destination that could not be opened the scheduler is never in a state in
\* which a job has been executed (and none of its records can be written).
C15_OpenFailureIsFatal ==
    sink = FailedStream => \A id \in JobIds : execCount[id] = 0

\* The steps of Scheduler::stop.
StopStep == StopCall \/ StopNotifyAll \/ StopJoin

\* The scheduler is Stopped or was never started: no thread in the workers
\* vector and the running flag false.
NoPool == workers = <<>> /\ ~running

\* C16: stop-after-stop is a no-op.  A call of stop() on a scheduler that is
\* Stopped or was never started does not block (each of its steps can be
\* taken as soon as it is reached) and its steps leave the running flag, the
\* workers vector, the queue, the window and the sink as they are.
C16_StopAfterStopNoOp ==
    /\ [](ctl.pc \in {"stop_notify", "stop_join"} /\ workers = <<>>
            => ENABLED (StopNotifyAll \/ StopJoin))
    /\ [][NoPool /\ StopStep
            => /\ running' = running
               /\ workers' = workers
               /\ job_queue' = job_queue
               /\ execution_history' = execution_history
               /\ sink' = sink]_vars

\* A second stop() after one that stopped a started scheduler is about to
\* return, with a job left in the queue and a record in the sink.
C16_Witness ==
    /\ stopReturned
    /\ ctl.pc = "stop_join"
    /\ NoPool
    /\ job_queue # <<>>
    /\ sink # <<>>

\* The first call made on the constructed scheduler is start(), and no other
\* call of start() or stop() has followed it.
FirstStart == calls = 1 /\ running

\* C17: the first start spawns the configured pool.  The first start() on
\* the constructed scheduler sets running; when it has returned there are
\* exactly num_threads workers and the worker at position k of the vector
\* has id k - 1, so the ids are 0..num_threads-1, each used once; a thread's
\* id never changes while it is in the vector, and every record carries
\* the id of the thread that wrote it.
C17_FirstStartSpawnsPool ==
    /\ [](FirstStart
            => /\ \A k \in DOMAIN workers : workers[k].tid = k - 1
               /\ ctl.pc = "idle" => Len(workers) = num_threads
               /\ \A k \in DOMAIN sink :
                     sink[k].kind = "fields"
                     => /\ sink[k].by \in DOMAIN workers
                        /\ sink[k].thread_id = workers[sink[k].by].tid)
    /\ [][/\ StartCall /\ calls = 0 => running' /\ workers' = <<>>
          /\ \A i \in DOMAIN workers \cap DOMAIN workers' :
                workers'[i].tid = workers[i].tid]_vars

\* The first start() of a scheduler of two threads has returned and the
\* second thread has written a record, which carries id 1.
C17_Witness ==
    /\ FirstStart
    /\ ctl.pc = "idle"
    /\ num_threads = 2
    /\ {workers[k].tid : k \in DOMAIN workers} = {0, 1}
    /\ \E k \in DOMAIN sink :
          sink[k].kind = "fields" /\ sink[k].by = 2 /\ sink[k].thread_id = 1

\* No call of start() or stop() is in progress and running is false: stop()
\* has returned (or nothing was ever called) and start() was not called since.
Stopped == ctl.pc = "idle" /\ ~running

\* The records of the sink: the rows whose line has been ended.
CompleteRows ==
    {k \in Rows : k + 1 \in DOMAIN sink /\ sink[k + 1].kind = "eol"}

RECURSIVE SumOver(_, _)
SumOver(f, S) ==
    IF S = {} THEN 0
    ELSE LET x == CHOOSE y \in S : TRUE IN f[x] + SumOver(f, S \ {x})

\* The number of jobs ever popped from the queue.
TotalDequeued == SumOver(deqCount, JobIds)

\* C18: in-flight jobs complete across stop.  When stop() has returned no
\* thread is left in the workers vector, hence none is in a job body; every
\* job popped so far has had its body run and its record written, and the
\* sink holds as many records as jobs were ever dequeued.
C18_InFlightJobsComplete ==
    Stopped
    => /\ workers = <<>>
       /\ \A id \in JobIds :
             /\ execCount[id] = deqCount[id]
             /\ Cardinality(RowsOf(id) \cap CompleteRows) = deqCount[id]
       /\ Cardinality(CompleteRows) = TotalDequeued
       /\ Rows = CompleteRows

\* stop() has returned on a started scheduler; a job that was still queued
\* when stop() cleared running was popped during the call and its record is
\* in the sink, the other job stayed in the queue.
C18_Witness ==
    /\ Stopped
    /\ stopReturned
    /\ \E id \in atStop : deqCount[id] = 1 /\ RowsOf(id) \cap CompleteRows # {}
    /\ job_queue # <<>>
    /\ TotalDequeued = 1

\* The scheduler is Running with at least one worker.
RunningPool == running /\ workers # <<>>

\* The job has been popped, its body has run and its record is in the sink.
Completed(id) ==
    /\ deqCount[id] >= 1
    /\ execCount[id] >= 1
    /\ RowsOf(id) \cap CompleteRows # {}

\* The queue holds a job and every worker is blocked in condition.wait.
AllBlocked ==
    /\ job_queue # <<>>
    /\ \A i \in DOMAIN workers : workers[i].pc = "waiting"

\* C19: no lost wake-up on submit.  On a running scheduler with a worker,
\* whose stop() is never called, every job pushed into the queue is eventually
\* dequeued, executed and recorded, and a state in which the queue holds a job
\* while every worker is blocked in the wait does not last for ever.
C19_NoLostWakeup ==
    /\ \A id \in JobIds : (RunningPool /\ id \in PushedIds) ~> Completed(id)
    /\ (RunningPool /\ AllBlocked) ~> ~AllBlocked

\* A job has been pushed while both workers were blocked in the wait, and
\* submitJob has released queue_mutex and not yet called notify_one.
C19_Witness ==
    /\ RunningPool
    /\ Len(workers) = 2
    /\ AllBlocked
    /\ \E s \in Submitters : subs[s].pc = "notify"

\* The copies of job `id` in the dispatch queue.
QueuedCopies(id) == {k \in DOMAIN job_queue : job_queue[k].id = id}

\* The workers that hold job `id`: popped, and its record not yet complete.
Holders(id) ==
    {i \in DOMAIN workers :
        /\ workers[i].pc \in {"start_time", "task", "log", "write", "eol"}
        /\ workers[i].job.id = id}

\* The records of job `id` in the sink.
RecordsOf(id) == RowsOf(id) \cap CompleteRows

\* The number of places job `id` is in.
Places(id) ==
    Cardinality(QueuedCopies(id)) + Cardinality(Holders(id))
        + Cardinality(RecordsOf(id))

\* C20: job conservation.  Every job whose push into the queue is done is in
\* exactly one place: once in the queue, or held by one worker, or as one
\* record in the sink; a job that was not pushed is in none.
C20_JobConservation ==
    \A id \in JobIds : Places(id) = (IF id \in PushedIds THEN 1 ELSE 0)

\* After a stop() and a second start(), one job is recorded in the sink and
\* a worker holds the other, whose row is written and not yet ended.
C20_Witness ==
    /\ stopReturned
    /\ running
    /\ \E id \in JobIds : RecordsOf(id) # {}
    /\ \E id \in JobIds : \E i \in Holders(id) : workers[i].pc = "eol"

====
